---- MODULE Spec2Model ----
(***************************************************************************)
(* A model of torchio's Resample transform                                 *)
(* (src/torchio/transforms/preprocessing/spatial/resample.py).             *)
(*                                                                         *)
(* Three specifications share the module:                                  *)
(*   Spec         apply_transform on a subject, one action per step of the *)
(*                loop over the subject's images;                          *)
(*   SpecSpacing  the pure function parse_spacing;                         *)
(*   SpecGrid     the pure function get_reference_image.                   *)
(*                                                                         *)
(* Numbers are exact rationals [n, d] (the code computes in float64; the   *)
(* model leaves rounding error out).  Affines are the axis-aligned 4x4     *)
(* matrices diag(s1, s2, s3, 1) with translation column t, kept as         *)
(* [s, t]: for them the spacing is |s|, the direction sign(s) and the      *)
(* origin t, all rational.                                                 *)
(***************************************************************************)
EXTENDS Integers, Sequences, FiniteSets, TLC

VARIABLES
    self,         \* the constructed Resample instance (its attributes)
    subject,      \* the subject: the ordered sequence of its images
    initial,      \* the subject as it was when apply_transform was called
    pc,           \* position in apply_transform / in the pure call
    i,            \* index of the loop over self.get_images(subject)
    error,        \* the exception raised, "" while none
    steps,        \* the resample steps executed so far, in order
    spacing_arg,  \* parse_spacing: the argument
    spacing_ret,  \* parse_spacing: the outcome
    grid_arg,     \* get_reference_image: the arguments
    grid_ret      \* get_reference_image: the outcome

vars == <<self, subject, initial, pc, i, error, steps,
          spacing_arg, spacing_ret, grid_arg, grid_ret>>

Axes == 1..3

(***************************************************************************)
(* Exact rational arithmetic.                                              *)
(***************************************************************************)
RECURSIVE GCD(_, _)
GCD(a, b) == IF b = 0 THEN a ELSE GCD(b, a % b)

Abs(x) == IF x < 0 THEN -x ELSE x

Rat(n, d) ==
    LET g == GCD(Abs(n), Abs(d))
        sg == IF d < 0 THEN -1 ELSE 1
    IN [n |-> sg * (n \div g), d |-> sg * (d \div g)]

R(k) == [n |-> k, d |-> 1]

RAdd(x, y) == Rat(x.n * y.d + y.n * x.d, x.d * y.d)
RSub(x, y) == Rat(x.n * y.d - y.n * x.d, x.d * y.d)
RMul(x, y) == Rat(x.n * y.n, x.d * y.d)
RDiv(x, y) == Rat(x.n * y.d, x.d * y.n)
RAbs(x) == [n |-> Abs(x.n), d |-> x.d]
RSign(x) == IF x.n < 0 THEN R(-1) ELSE R(1)
RLeq(x, y) == x.n * y.d <= y.n * x.d
\* np.ceil: the least integer >= x
Ceil(x) == -((-x.n) \div x.d)

(***************************************************************************)
(* parse_spacing (lines 101-115).  A Python value is [type, items]: a      *)
(* number carries itself as its one item, a tuple or list its items, any   *)
(* other value none.  An outcome is [raised, message, received, value].    *)
(***************************************************************************)
MaxTupleLen == 4

SpacingNumbers == {R(-1), R(0), Rat(1, 2), R(2)}

NumberTypes == {"int", "float"}

TypeMessage == "Target must be a string, a positive number or a tuple of positive numbers, not"
PositiveMessage == "Spacing must be positive, not"

Returned(v) == [raised |-> "", message |-> "", received |-> "", value |-> v]
Raised(exc, msg, typ) == [raised |-> exc, message |-> msg, received |-> typ, value |-> <<>>]

\* np.any(np.array(spacing) <= 0), line 113
any_not_positive(spacing) ==
    \E k \in 1..Len(spacing.items) : RLeq(spacing.items[k], R(0))

\* parse_spacing without the check of line 113
parse_spacing_unchecked(spacing) ==
    IF spacing.type = "tuple" /\ Len(spacing.items) = 3
    THEN Returned(spacing.items)
    ELSE IF spacing.type \in NumberTypes
    THEN Returned(<<spacing.items[1], spacing.items[1], spacing.items[1]>>)
    ELSE Raised("ValueError", TypeMessage, spacing.type)

parse_spacing(spacing) ==
    LET result ==
            IF spacing.type = "tuple" /\ Len(spacing.items) = 3
            THEN Returned(spacing.items)
            ELSE IF spacing.type \in NumberTypes
            THEN Returned(<<spacing.items[1], spacing.items[1], spacing.items[1]>>)
            ELSE Raised("ValueError", TypeMessage, spacing.type)
    IN IF result.raised # "" THEN result
       ELSE IF any_not_positive(spacing)
       THEN Raised("ValueError", PositiveMessage, "")
       ELSE result

TuplesUpTo(n) == UNION {[1..k -> SpacingNumbers] : k \in 0..n}

SpacingArgs ==
    {[type |-> t, items |-> <<x>>] : t \in NumberTypes, x \in SpacingNumbers}
    \cup {[type |-> t, items |-> s] : t \in {"tuple", "list"}, s \in TuplesUpTo(MaxTupleLen)}
    \cup {[type |-> t, items |-> <<>>] : t \in {"str", "NoneType", "dict"}}

Unused == <<>>

InitSpacing ==
    /\ spacing_arg \in SpacingArgs
    /\ spacing_ret = Unused
    /\ pc = "call"
    /\ self = Unused /\ subject = Unused /\ initial = Unused
    /\ i = 0 /\ error = "" /\ steps = <<>>
    /\ grid_arg = Unused /\ grid_ret = Unused

CallParseSpacing ==
    /\ pc = "call"
    /\ spacing_ret' = parse_spacing(spacing_arg)
    /\ pc' = "returned"
    /\ UNCHANGED <<self, subject, initial, i, error, steps, spacing_arg, grid_arg, grid_ret>>

NextSpacing == CallParseSpacing

SpecSpacing == InitSpacing /\ [][NextSpacing]_vars

IsPositive(x) == ~RLeq(x, R(0))

\* C8: parse_spacing returns (n, n, n) for a positive number n and a 3-tuple
\* of positive numbers unchanged; it raises the "must be positive" error for
\* a number <= 0 and for a 3-tuple with a component <= 0; it raises the
\* error naming the received type for every other input; and no returned
\* triple has a component <= 0.
C8_ParseSpacing ==
    pc = "returned" =>
      LET a == spacing_arg
          r == spacing_ret
          isNumber == a.type \in NumberTypes
          isTriple == a.type = "tuple" /\ Len(a.items) = 3
      IN /\ (isNumber /\ IsPositive(a.items[1])) =>
               (r.raised = "" /\ r.value = <<a.items[1], a.items[1], a.items[1]>>)
         /\ (isTriple /\ \A k \in 1..3 : IsPositive(a.items[k])) =>
               (r.raised = "" /\ r.value = a.items)
         /\ (isNumber /\ ~IsPositive(a.items[1])) =>
               (r.raised = "ValueError" /\ r.message = PositiveMessage)
         /\ (isTriple /\ \E k \in 1..3 : ~IsPositive(a.items[k])) =>
               (r.raised = "ValueError" /\ r.message = PositiveMessage)
         /\ (~isNumber /\ ~isTriple) =>
               (r.raised = "ValueError" /\ r.message = TypeMessage /\ r.received = a.type)
         /\ r.raised = "" =>
               (Len(r.value) = 3 /\ \A k \in 1..3 : IsPositive(r.value[k]))

\* a 3-tuple with one non-positive component among positive ones was rejected
C8_Witness ==
    /\ pc = "returned"
    /\ spacing_arg.type = "tuple" /\ Len(spacing_arg.items) = 3
    /\ IsPositive(spacing_arg.items[1]) /\ ~IsPositive(spacing_arg.items[2])
    /\ spacing_ret.raised = "ValueError"

(***************************************************************************)
(* get_reference_image (lines 212-234).  A SimpleITK image is its grid:    *)
(* [size, spacing, origin, direction], the direction being the diagonal    *)
(* of the direction matrix.                                                *)
(***************************************************************************)
Uint16Range == 65536

\* What the build can make of a float64 outside 0..65535 cast to uint16
\* (numpy leaves it to the C cast, which is undefined there).
CastOutcomes == {"wrap", "saturate"}

\* ndarray.astype(np.uint16), line 221, of an integral float
astype_uint16(x, cast) ==
    IF 0 <= x /\ x < Uint16Range THEN x
    ELSE IF cast = "wrap" THEN x % Uint16Range
    ELSE IF x < 0 THEN 0 ELSE Uint16Range - 1

\* sitk.Image.TransformContinuousIndexToPhysicalPoint, for a diagonal direction
TransformContinuousIndexToPhysicalPoint(image, index) ==
    [k \in Axes |->
        RAdd(image.origin[k],
             RMul(image.direction[k], RMul(image.spacing[k], index[k])))]

get_reference_image(image, spacing, cast) ==
    LET old_spacing == image.spacing
        new_spacing == spacing
        old_size == image.size
        new_size_float == [k \in Axes |->
            RDiv(RMul(R(old_size[k]), old_spacing[k]), new_spacing[k])]
        new_size_cast == [k \in Axes |-> astype_uint16(Ceil(new_size_float[k]), cast)]
        new_size == [k \in Axes |-> IF old_size[k] = 1 THEN 1 ELSE new_size_cast[k]]
        new_origin_index == [k \in Axes |->
            RMul(Rat(1, 2), RSub(RDiv(new_spacing[k], old_spacing[k]), R(1)))]
        new_origin_lps == TransformContinuousIndexToPhysicalPoint(image, new_origin_index)
    IN [dim |-> Len(old_size),
        size |-> new_size,
        spacing |-> new_spacing,
        origin |-> new_origin_lps,
        direction |-> image.direction,
        voxels |-> <<>>]

GridSizes == {1, 3, 300, 65537}

GridSpacings ==
    { <<R(1), R(1), R(1)>>, <<R(2), R(2), R(2)>>,
      <<Rat(1, 2), R(2), R(3)>>, <<Rat(1, 256), R(1), R(2)>> }

GridOrigins == { <<R(0), R(0), R(0)>>, <<R(-5), R(3), Rat(1, 2)>> }

GridDirections == { <<R(1), R(1), R(1)>>, <<R(-1), R(-1), R(1)>> }

InitGrid ==
    /\ grid_arg \in
         [image : [size : [Axes -> GridSizes], spacing : GridSpacings,
                   origin : GridOrigins, direction : GridDirections],
          spacing : GridSpacings]
    /\ grid_ret = Unused
    /\ pc = "call"
    /\ self = Unused /\ subject = Unused /\ initial = Unused
    /\ i = 0 /\ error = "" /\ steps = <<>>
    /\ spacing_arg = Unused /\ spacing_ret = Unused

CallGetReferenceImage ==
    /\ pc = "call"
    /\ \E cast \in CastOutcomes :
         grid_ret' = get_reference_image(grid_arg.image, grid_arg.spacing, cast)
    /\ pc' = "returned"
    /\ UNCHANGED <<self, subject, initial, i, error, steps, spacing_arg, spacing_ret, grid_arg>>

NextGrid == CallGetReferenceImage

SpecGrid == InitGrid /\ [][NextGrid]_vars

\* old_size * old_spacing / new_spacing on axis k, exactly
ExactSize(k) == RDiv(RMul(R(grid_arg.image.size[k]), grid_arg.image.spacing[k]),
                     grid_arg.spacing[k])

\* C6: on every axis new_size is 1 when old_size is 1, and otherwise
\* ceil(old_size * old_spacing / new_spacing), which is at least 1 and makes
\* the new grid cover the old extent (new_size * new_spacing >= old_size *
\* old_spacing), whatever the spacing ratio.
C6_NewSize ==
    pc = "returned" =>
      \A k \in Axes :
        IF grid_arg.image.size[k] = 1
        THEN grid_ret.size[k] = 1
        ELSE /\ grid_ret.size[k] = Ceil(ExactSize(k))
             /\ grid_ret.size[k] >= 1
             /\ RLeq(RMul(R(grid_arg.image.size[k]), grid_arg.image.spacing[k]),
                     RMul(R(grid_ret.size[k]), grid_arg.spacing[k]))

\* C7: with the target spacing equal to the image's own spacing the returned
\* grid has the image's size, spacing, origin and direction.
C7_Identity ==
    (pc = "returned" /\ grid_arg.spacing = grid_arg.image.spacing) =>
      /\ grid_ret.size = grid_arg.image.size
      /\ grid_ret.spacing = grid_arg.image.spacing
      /\ grid_ret.origin = grid_arg.image.origin
      /\ grid_ret.direction = grid_arg.image.direction

\* What does hold of the size: the formula of C6 wherever the rounded size
\* fits 16 bits, and the singleton rule everywhere.
GridSizeWithin16Bits ==
    pc = "returned" =>
      \A k \in Axes :
        /\ grid_arg.image.size[k] = 1 => grid_ret.size[k] = 1
        /\ (grid_arg.image.size[k] # 1 /\ Ceil(ExactSize(k)) < Uint16Range) =>
             grid_ret.size[k] = Ceil(ExactSize(k))

\* What does hold of the identity: spacing, origin and direction always, the
\* size on every axis shorter than 65536.
GridIdentityWithin16Bits ==
    (pc = "returned" /\ grid_arg.spacing = grid_arg.image.spacing) =>
      /\ grid_ret.spacing = grid_arg.image.spacing
      /\ grid_ret.origin = grid_arg.image.origin
      /\ grid_ret.direction = grid_arg.image.direction
      /\ \A k \in Axes : grid_arg.image.size[k] < Uint16Range =>
                           grid_ret.size[k] = grid_arg.image.size[k]

(***************************************************************************)
(* Images and subjects.  An image is a dict: [name, scalar, affine, data,  *)
(* extra], name standing for the object's identity, scalar for             *)
(* isinstance(image, ScalarImage), data for image[DATA] (its shape and the *)
(* history of resamplings that produced its voxels), affine for            *)
(* image[AFFINE] and extra for the image's other keys: a set of            *)
(* [key, type, shape, matrix].  A key is [type, value].                    *)
(***************************************************************************)
MaxImages == 2

Names == {"t1", "seg", "slice"}

NoneKey == [type |-> "NoneType", value |-> "None"]
StrKey == [type |-> "str", value |-> "affine_matrix"]
IntKey == [type |-> "int", value |-> "5"]

\* the matrix an image may carry: a flip, a scaling and a translation
PreAffine == [s |-> <<R(-1), R(1), R(2)>>, t |-> <<R(10), R(0), R(-3)>>]

SizeOf(name) ==
    CASE name = "t1" -> <<4, 4, 4>>
      [] name = "seg" -> <<2, 3, 2>>
      [] name = "slice" -> <<4, 4, 1>>
      [] OTHER -> <<3, 3, 3>>

AffineOf(name) ==
    CASE name = "t1" -> [s |-> <<R(1), R(1), R(1)>>, t |-> <<R(0), R(0), R(0)>>]
      [] name = "seg" -> [s |-> <<R(-2), R(2), R(2)>>, t |-> <<R(1), R(0), R(-1)>>]
      [] name = "slice" -> [s |-> <<R(1), R(1), R(3)>>, t |-> <<R(0), R(0), R(5)>>]
      [] OTHER -> [s |-> <<R(3), R(3), R(3)>>, t |-> <<R(-1), R(-1), R(-1)>>]

\* "slice" keeps its matrix under a key that is no string, "seg" keeps a tensor
KeyOf(name) == IF name = "slice" THEN IntKey ELSE StrKey
MatrixTypeOf(name) == IF name = "seg" THEN "Tensor" ELSE "ndarray"

EntryKinds == {"absent", "valid", "invalid"}

\* an invalid entry is a list on "t1" and a 3x3 matrix on the others
ExtraOf(name, kind) ==
    CASE kind = "absent" -> {}
      [] kind = "valid" ->
           {[key |-> KeyOf(name), type |-> MatrixTypeOf(name), shape |-> <<4, 4>>,
             matrix |-> PreAffine]}
      [] kind = "invalid" ->
           {[key |-> KeyOf(name),
             type |-> IF name = "t1" THEN "list" ELSE MatrixTypeOf(name),
             shape |-> IF name = "t1" THEN <<4, 4>> ELSE <<3, 3>>,
             matrix |-> PreAffine]}

NewImage(name, scalar, kind) ==
    [name |-> name,
     scalar |-> scalar,
     affine |-> AffineOf(name),
     data |-> [size |-> SizeOf(name), voxels |-> <<>>],
     extra |-> ExtraOf(name, kind)]

Arrangements ==
    {a \in UNION {[1..n -> Names] : n \in 1..MaxImages} :
        \A j, k \in 1..Len(a) : j # k => a[j] # a[k]}

Subjects ==
    UNION { {[k \in 1..Len(a) |-> NewImage(a[k], sc[k], ek[k])] :
                sc \in [1..Len(a) -> BOOLEAN], ek \in [1..Len(a) -> EntryKinds]} :
            a \in Arrangements }

\* the images of the subject, in order
get_images(subj) == subj

HasName(subj, name) == \E k \in 1..Len(subj) : subj[k].name = name
ByName(subj, name) == subj[CHOOSE k \in 1..Len(subj) : subj[k].name = name]

\* `key in image` and `image[key]`
key_in(key, image) == \E e \in image.extra : e.key = key
getitem(image, key) == CHOOSE e \in image.extra : e.key = key

(***************************************************************************)
(* Image.as_sitk and sitk_to_nib: between [affine, data] and the grid      *)
(* [dim, size, spacing, origin, direction, voxels].  An image one voxel    *)
(* deep is 2D unless force_3d.                                             *)
(***************************************************************************)
as_sitk(image, force_3d) ==
    [dim |-> IF ~force_3d /\ image.data.size[3] = 1 THEN 2 ELSE 3,
     size |-> image.data.size,
     spacing |-> [k \in Axes |-> RAbs(image.affine.s[k])],
     origin |-> image.affine.t,
     direction |-> [k \in Axes |-> RSign(image.affine.s[k])],
     voxels |-> image.data.voxels]

sitk_to_nib(image) ==
    [array |-> [size |-> image.size, voxels |-> image.voxels],
     affine |-> [s |-> [k \in Axes |-> RMul(image.direction[k], image.spacing[k])],
                 t |-> image.origin]]

Grid(image) == [size |-> image.size, spacing |-> image.spacing,
                origin |-> image.origin, direction |-> image.direction]

\* matrix @ affine, for diag(m.s) with translation m.t
matmul(m, a) ==
    [s |-> [k \in Axes |-> RMul(m.s[k], a.s[k])],
     t |-> [k \in Axes |-> RAdd(RMul(m.s[k], a.t[k]), m.t[k])]]

\* torch.Tensor.numpy()
numpy(entry) == [entry EXCEPT !.type = "ndarray"]

get_sitk_interpolator(interpolation) ==
    CASE interpolation = "nearest" -> "sitkNearestNeighbor"
      [] interpolation = "linear" -> "sitkLinear"
      [] interpolation = "bspline" -> "sitkBSpline"

\* sitk.ResampleImageFilter with SetInterpolator, SetReferenceImage, Execute:
\* the floating image's voxels evaluated on the reference grid
Execute(floating, reference, interpolator) ==
    [dim |-> reference.dim,
     size |-> reference.size,
     spacing |-> reference.spacing,
     origin |-> reference.origin,
     direction |-> reference.direction,
     voxels |-> Append(floating.voxels,
                       [interpolator |-> interpolator,
                        from |-> Grid(floating),
                        onto |-> Grid(reference)])]

(***************************************************************************)
(* The transform: __init__ and parse_target (lines 55-99).  A target is    *)
(* [type, name, is_file, items]; self.reference_image is [type, name]: a   *)
(* string (the name of an image of the subject), an Image (name is the     *)
(* object) or None.                                                        *)
(***************************************************************************)
Targets ==
    { [type |-> "str", name |-> "t1", is_file |-> FALSE, items |-> <<>>],
      [type |-> "str", name |-> "slice", is_file |-> FALSE, items |-> <<>>],
      [type |-> "Path", name |-> "colin.nii", is_file |-> TRUE, items |-> <<>>],
      [type |-> "Image", name |-> "t1", is_file |-> FALSE, items |-> <<>>],
      [type |-> "tuple", name |-> "", is_file |-> FALSE, items |-> <<R(1), R(2), R(3)>>] }

Interpolations == {"nearest", "linear"}

AffineNames == {NoneKey, StrKey, IntKey}

parse_target(target) ==
    IF target.type \in {"str", "Path"}
    THEN [reference_image |->
              IF target.is_file THEN [type |-> "Image", name |-> target.name]
              ELSE [type |-> "str", name |-> target.name],
          target_spacing |-> <<>>]
    ELSE IF target.type = "Image"
    THEN [reference_image |-> [type |-> "Image", name |-> target.name],
          target_spacing |-> as_sitk(NewImage(target.name, TRUE, "absent"), TRUE).spacing]
    ELSE [reference_image |-> [type |-> "NoneType", name |-> ""],
          target_spacing |-> parse_spacing(target).value]

Resample(target, image_interpolation, pre_affine_name, scalars_only) ==
    [target |-> target,
     reference_image |-> parse_target(target).reference_image,
     target_spacing |-> parse_target(target).target_spacing,
     image_interpolation |-> image_interpolation,
     pre_affine_name |-> pre_affine_name,
     scalars_only |-> scalars_only]

\* the Image self.reference_image is: an image of the subject, or one outside it
deref(reference, subj) ==
    IF HasName(subj, reference.name) THEN ByName(subj, reference.name)
    ELSE NewImage(reference.name, TRUE, "absent")

(***************************************************************************)
(* check_affine and check_affine_key_presence (lines 117-149).             *)
(***************************************************************************)
AffineNameError == "TypeError: Affine name argument must be a string"
MatrixTypeError == "TypeError: The affine matrix must be a NumPy array or PyTorch tensor"
MatrixShapeError == "ValueError: The affine matrix shape must be (4, 4)"
KeyNotFoundError == "ValueError: An affine name was given, but it was not found in any image in the subject"
ReferenceNotFoundError == "ValueError: Reference name not found in subject"
DimensionError == "AssertionError"

\* the exception check_affine raises, "" when it returns
check_affine(affine_name, image_dict) ==
    IF affine_name.type # "str" THEN AffineNameError
    ELSE IF key_in(affine_name, image_dict)
    THEN LET matrix == getitem(image_dict, affine_name)
         IN IF matrix.type \notin {"ndarray", "Tensor"} THEN MatrixTypeError
            ELSE IF matrix.shape # <<4, 4>> THEN MatrixShapeError
            ELSE ""
    ELSE ""

\* a presence check that finds the key whatever the subject
key_presence_unchecked(affine_name, subj) == TRUE

\* TRUE when check_affine_key_presence returns, FALSE when it raises
check_affine_key_presence(affine_name, subj) ==
    \E k \in 1..Len(subj) : key_in(affine_name, subj[k])

(***************************************************************************)
(* apply_transform (lines 151-210), the steps of one pass of its loop.     *)
(***************************************************************************)
use_pre_affine == self.pre_affine_name # NoneKey

\* line 157: image is self.reference_image
is_reference(image) ==
    self.reference_image.type = "Image" /\ image.name = self.reference_image.name

\* a loop that skips no image for its kind
never_skipped(image) == FALSE

\* a loop that skips every non-scalar image, whatever scalars_only
always_skip_non_scalar(image) == ~image.scalar

\* lines 161-163: the image is left out
skip_non_scalar(image) == ~image.scalar /\ self.scalars_only

\* the interpolation requested, whatever the image
requested_interpolation(image) == self.image_interpolation

\* lines 161-166
choose_interpolation(image) ==
    IF ~image.scalar THEN "nearest" ELSE self.image_interpolation

\* line 170
has_pre_affine(image) == use_pre_affine /\ key_in(self.pre_affine_name, image)

\* lines 172-175, after check_affine has returned
apply_pre_affine(image) ==
    IF has_pre_affine(image)
    THEN LET matrix == numpy(getitem(image, self.pre_affine_name)).matrix
         IN [image EXCEPT !.affine = matmul(matrix, @)]
    ELSE image

\* lines 180-196: [raised, image]
resolve_reference(subj, floating_itk, cast) ==
    IF self.reference_image.type = "str"
    THEN IF HasName(subj, self.reference_image.name)
         THEN [raised |-> "",
               image |-> as_sitk(ByName(subj, self.reference_image.name), FALSE)]
         ELSE [raised |-> ReferenceNotFoundError, image |-> floating_itk]
    ELSE IF self.reference_image.type = "Image"
    THEN [raised |-> "", image |-> as_sitk(deref(self.reference_image, subj), TRUE)]
    ELSE [raised |-> "",
          image |-> get_reference_image(floating_itk, self.target_spacing, cast)]

Init ==
    /\ \E target \in Targets, interpolation \in Interpolations,
          affine_name \in AffineNames, scalars_only \in BOOLEAN :
         self = Resample(target, interpolation, affine_name, scalars_only)
    /\ subject \in Subjects
    /\ initial = subject
    /\ pc = "start"
    /\ i = 0
    /\ error = ""
    /\ steps = <<>>
    /\ spacing_arg = Unused /\ spacing_ret = Unused
    /\ grid_arg = Unused /\ grid_ret = Unused

pure == <<spacing_arg, spacing_ret, grid_arg, grid_ret>>

\* lines 152-154, the check raising
KeyPresenceFails ==
    /\ pc = "start"
    /\ use_pre_affine
    /\ ~check_affine_key_presence(self.pre_affine_name, subject)
    /\ pc' = "error"
    /\ error' = KeyNotFoundError
    /\ UNCHANGED <<self, subject, initial, i, steps, pure>>

\* lines 152-155, into the loop
EnterLoop ==
    /\ pc = "start"
    /\ use_pre_affine => check_affine_key_presence(self.pre_affine_name, subject)
    /\ pc' = "loop"
    /\ i' = 1
    /\ UNCHANGED <<self, subject, initial, error, steps, pure>>

InLoop == pc = "loop" /\ i <= Len(get_images(subject))

\* lines 157-158
SkipReference ==
    /\ InLoop
    /\ is_reference(get_images(subject)[i])
    /\ i' = i + 1
    /\ UNCHANGED <<self, subject, initial, pc, error, steps, pure>>

\* lines 161-163
SkipNonScalar ==
    /\ InLoop
    /\ ~is_reference(get_images(subject)[i])
    /\ skip_non_scalar(get_images(subject)[i])
    /\ i' = i + 1
    /\ UNCHANGED <<self, subject, initial, pc, error, steps, pure>>

Processed == InLoop /\ ~is_reference(get_images(subject)[i])
                    /\ ~skip_non_scalar(get_images(subject)[i])

\* lines 170-171: check_affine raises
CheckAffineFails ==
    /\ Processed
    /\ has_pre_affine(subject[i])
    /\ check_affine(self.pre_affine_name, subject[i]) # ""
    /\ pc' = "error"
    /\ error' = check_affine(self.pre_affine_name, subject[i])
    /\ UNCHANGED <<self, subject, initial, i, steps, pure>>

AffineChecked ==
    /\ Processed
    /\ has_pre_affine(subject[i]) => check_affine(self.pre_affine_name, subject[i]) = ""

\* the subject once lines 170-175 have run on image i
Corrected == [subject EXCEPT ![i] = apply_pre_affine(@)]

\* lines 170-188: the reference name is not a key of the subject
ReferenceNotFound ==
    /\ AffineChecked
    /\ \E cast \in CastOutcomes :
         resolve_reference(Corrected, as_sitk(Corrected[i], TRUE), cast).raised # ""
    /\ subject' = Corrected
    /\ pc' = "error"
    /\ error' = ReferenceNotFoundError
    /\ UNCHANGED <<self, initial, i, steps, pure>>

\* lines 170-200: the assertion on the dimensions fails
DimensionMismatch ==
    /\ AffineChecked
    /\ \E cast \in CastOutcomes :
         LET floating_itk == as_sitk(Corrected[i], TRUE)
             reference == resolve_reference(Corrected, floating_itk, cast)
         IN /\ reference.raised = ""
            /\ reference.image.dim # floating_itk.dim
    /\ subject' = Corrected
    /\ pc' = "error"
    /\ error' = DimensionError
    /\ UNCHANGED <<self, initial, i, steps, pure>>

\* lines 160-209: the image is resampled and overwritten
ResampleImage ==
    /\ AffineChecked
    /\ \E cast \in CastOutcomes :
         LET interpolation == choose_interpolation(subject[i])
             interpolator == get_sitk_interpolator(interpolation)
             floating_itk == as_sitk(Corrected[i], TRUE)
             reference == resolve_reference(Corrected, floating_itk, cast)
             resampled == Execute(floating_itk, reference.image, interpolator)
             nib == sitk_to_nib(resampled)
         IN /\ reference.raised = ""
            /\ reference.image.dim = floating_itk.dim
            /\ subject' = [Corrected EXCEPT ![i].data = nib.array,
                                            ![i].affine = nib.affine]
            /\ steps' = Append(steps, [image |-> i,
                                       interpolator |-> interpolator,
                                       floating |-> Grid(floating_itk),
                                       reference |-> Grid(reference.image)])
    /\ i' = i + 1
    /\ UNCHANGED <<self, initial, pc, error, pure>>

\* line 210
Return ==
    /\ pc = "loop"
    /\ i > Len(get_images(subject))
    /\ pc' = "done"
    /\ UNCHANGED <<self, subject, initial, i, error, steps, pure>>

Next ==
    \/ KeyPresenceFails
    \/ EnterLoop
    \/ SkipReference
    \/ SkipNonScalar
    \/ CheckAffineFails
    \/ ReferenceNotFound
    \/ DimensionMismatch
    \/ ResampleImage
    \/ Return

Spec == Init /\ [][Next]_vars

(***************************************************************************)
(* Properties of apply_transform.                                          *)
(***************************************************************************)
Images == 1..Len(subject)

\* spacing, origin and direction of an image or of a grid
Geometry(g) == [spacing |-> g.spacing, origin |-> g.origin, direction |-> g.direction]
GeometryOf(image) == Geometry(as_sitk(image, TRUE))

HasReferenceTarget == self.reference_image.type \in {"str", "Image"}
IsTheReference(image) == image.name = self.reference_image.name
IndexOfReference == CHOOSE k \in Images : IsTheReference(initial[k])

ReferenceWhenProcessed(k) ==
    IF self.reference_image.type = "Image"
    THEN deref(self.reference_image, initial)
    ELSE IF IndexOfReference < k THEN subject[IndexOfReference]
    ELSE initial[IndexOfReference]

C2_NonScalarNearest ==
    \A j \in 1..Len(steps) :
      ~initial[steps[j].image].scalar => steps[j].interpolator = "sitkNearestNeighbor"

\* a non-scalar image was resampled by a transform built with 'linear'
C2_Witness ==
    /\ self.image_interpolation = "linear"
    /\ \E j \in 1..Len(steps) : ~initial[steps[j].image].scalar

\* C3: with scalars_only, the data and the affine of every non-scalar image
\* stay what they were, for every target and also when the image carries a
\* matrix under pre_affine_name.
C3_NonScalarUntouched ==
    self.scalars_only =>
      \A k \in Images :
        ~initial[k].scalar =>
          /\ subject[k].data = initial[k].data
          /\ subject[k].affine = initial[k].affine

\* the transform returned having resampled an image and passed over a
\* non-scalar image that carries a valid matrix under pre_affine_name
C3_Witness ==
    /\ pc = "done"
    /\ self.scalars_only
    /\ steps # <<>>
    /\ \E k \in Images :
         /\ ~initial[k].scalar
         /\ ~is_reference(initial[k])
         /\ key_in(self.pre_affine_name, initial[k])
         /\ check_affine(self.pre_affine_name, initial[k]) = ""

\* C4: when the processing of an image fails, the data and the affine of
\* that image and of every image after it are what they were at the start:
\* only images processed earlier may differ.
C4_NoPartialFailure ==
    pc = "error" =>
      \A k \in Images :
        k >= i =>
          /\ subject[k].data = initial[k].data
          /\ subject[k].affine = initial[k].affine

\* What does hold on a failure: no data changed from image i on, and an
\* affine changed only by the correction of image i.
FailureKeepsData ==
    pc = "error" =>
      \A k \in Images :
        k >= i =>
          /\ subject[k].data = initial[k].data
          /\ \/ subject[k].affine = initial[k].affine
             \/ /\ k = i
                /\ error \in {ReferenceNotFoundError, DimensionError}
                /\ subject[k].affine = matmul(PreAffine, initial[k].affine)

\* C5: with pre_affine_name set and carried by no image, apply_transform
\* fails with the key-not-found error before any data or affine has changed
\* and before any resample step.
C5_KeyNotFoundFirst ==
    (/\ use_pre_affine
     /\ \A k \in Images : ~key_in(self.pre_affine_name, initial[k])
     /\ pc # "start") =>
      /\ pc = "error"
      /\ error = KeyNotFoundError
      /\ subject = initial
      /\ steps = <<>>

\* the key was missing from both images of a subject whose first image would
\* otherwise have been resampled
C5_Witness ==
    /\ pc = "error"
    /\ error = KeyNotFoundError
    /\ Len(subject) = 2
    /\ ~is_reference(subject[1]) /\ subject[1].scalar

\* C9: with a pre_affine_name that is neither None nor a string,
\* apply_transform fails with check_affine's TypeError on every subject.
C9_NonStringNameRejected ==
    (self.pre_affine_name.type \notin {"NoneType", "str"} /\ pc \in {"done", "error"}) =>
      (pc = "error" /\ error = AffineNameError)

\* C10: with a named target every resample step of one call uses the grid
\* the named image had when the call started.
C10_ReferenceFixed ==
    (self.reference_image.type = "str" /\ HasName(initial, self.reference_image.name)) =>
      \A j \in 1..Len(steps) :
        steps[j].reference = Grid(as_sitk(initial[IndexOfReference], FALSE))

\* What does hold of a named target: the grid is fixed whenever the named
\* image carries no matrix under pre_affine_name.
ReferenceFixedWithoutCorrection ==
    (/\ self.reference_image.type = "str"
     /\ HasName(initial, self.reference_image.name)
     /\ ~has_pre_affine(initial[IndexOfReference])) =>
      \A j \in 1..Len(steps) :
        steps[j].reference = Grid(as_sitk(initial[IndexOfReference], FALSE))

====
